---- MODULE Spec2Model ----
(***************************************************************************)
(* Model of the Yahoo Mail MCP server (src/server.js): the tool handlers   *)
(* that take message UIDs (read_email and the seven mutating tools), the   *)
(* UID validator, and the IMAP mail store they talk to.                    *)
(*                                                                         *)
(* A tool call is followed from the dispatcher through validation,         *)
(* connection set-up, openBox, the bulk UID command and its callback, to   *)
(* the text result handed back to the client.  The IMAP server is the      *)
(* environment: it applies a UID command to the messages of the selected   *)
(* folder whose UID is in the command's set (RFC 3501 ignores UIDs that    *)
(* do not exist) or answers the command with an error.                     *)
(***************************************************************************)
EXTENDS Integers, Sequences, FiniteSets, TLC

(***************************************************************************)
(* Bounds of the model.                                                    *)
(***************************************************************************)
MaxLen   == 3      \* longest uids array a client passes
MaxUID   == 3      \* largest UID a client names
NumMsgs  == 2      \* messages in the account (UIDs 1..NumMsgs of INBOX)
MaxCalls == 2      \* tool calls made one after the other

(***************************************************************************)
(* JavaScript values of the `uids` argument.  A number is kept in halves   *)
(* (v = 2 * n), so that 1.5 is v = 3 and Number.isInteger is v % 2 = 0.    *)
(* A string is kept by its length.                                         *)
(***************************************************************************)
Undefined == [t |-> "undefined", v |-> 0, a |-> <<>>]
Null      == [t |-> "null", v |-> 0, a |-> <<>>]
Num(h)    == [t |-> "number", v |-> h, a |-> <<>>]
Str(n)    == [t |-> "string", v |-> n, a |-> <<>>]
Arr(s)    == [t |-> "array", v |-> 0, a |-> s]

SeqsUpTo(S, n) == UNION {[1..k -> S] : k \in 0..n}

ValidElems  == {Num(2 * u) : u \in 1..MaxUID}
WideElems   == ValidElems \cup {Num(0), Num(-2), Num(3), Str(1), Null, Undefined}
Scalars     == {Undefined, Null, Num(0), Num(2), Str(0), Str(1)}

\* Every value up to the bounds: used for one call, to examine validation.
WideInputs  == Scalars \cup {Arr(s) : s \in SeqsUpTo(WideElems, MaxLen)}

\* The inputs of call sequences: the arrays of UIDs without a repeated UID,
\* the arrays of one or two UIDs with repetition, and a few ill-formed values.
Distinct(s)  == \A i, j \in 1..Len(s) : s[i] = s[j] => i = j
NarrowInputs ==
    {Undefined, Num(2), Arr(<<>>), Arr(<<Num(0)>>)}
        \cup {Arr(s) : s \in {q \in SeqsUpTo(ValidElems, MaxLen) :
                                  Len(q) >= 1 /\ (Distinct(q) \/ Len(q) <= 2)}}

\* The inputs of longer call sequences: those of NarrowInputs whose UIDs do
\* not descend.
SortedInputs ==
    {x \in NarrowInputs :
        \A i, j \in 1..Len(x.a) : i < j => x.a[i].v <= x.a[j].v}

(***************************************************************************)
(* Folders.  "Nope" is a folder name that does not exist on the server.    *)
(***************************************************************************)
\* Where a message is once the server has expunged it: in no folder.
Gone == "(expunged)"

RealFolders == {"INBOX", "Trash", "Archive"}
CallFolders == {"INBOX", "Trash", "Nope"}
MoveDests   == {"Archive", "Nope"}
Msgs        == 1..NumMsgs
MaxUidNext  == NumMsgs + MaxUID

ReadTools   == {"list_emails", "read_email", "search_emails", "list_folders"}
MutateTools == {"mark_as_read", "mark_as_unread", "flag_emails", "unflag_emails",
                "archive_emails", "delete_emails", "move_emails"}
Tools       == MutateTools \cup {"read_email"}

VARIABLES
    store,      \* store[m] = [folder, uid, flags] of message m on the server
    uidNext,    \* uidNext[f] = the UID the server gives the next message of f
    ncalls,     \* tool calls started so far
    pc,         \* position of the current tool call
    tool,       \* name of the tool called
    arg,        \* args.uids of the request
    uids,       \* the uids value modifyEmails / readEmails works on
    folder,     \* folder argument
    dest,       \* folderName argument of move_emails
    lst,        \* list_emails / search_emails: arguments, total, search results
    repeat,     \* the call re-issues the preceding call with the same arguments
    configured, \* YAHOO_EMAIL and YAHOO_APP_PASSWORD are set in the environment
    promise,    \* outcome of the promise of createImapConnection
    timer,      \* the 35 s connection timer is armed
    fired,      \* the once-listeners of the connection that have run
    conn,       \* the call's IMAP connection: none, connecting, ready, ended
    boxMode,    \* how openBox opened the folder: none, rw, ro
    cmds,       \* UID commands the call has issued on its connection
    reply,      \* the server's answer to the command in flight
    affected,   \* UIDs of the messages the server applied the command to
    present,    \* UIDs that were in the folder when the server ran the command
    foundUIDs,  \* readEmails: UIDs of the 'attributes' events seen
    unparsed,   \* readEmails: messages handed to simpleParser, callback pending
    emails,     \* readEmails: entries pushed by the simpleParser callbacks
    result,     \* what the request handler returns to the client
    http,       \* the HTTP server: off, open (no OAuth environment), oauth
    validTokens,\* this.validTokens: the access tokens the server accepts
    grants,     \* grants[t] = the token request access token t was issued to
    authCodes,  \* this.authCodes: the authorization codes not yet redeemed
    codes,      \* authorization codes generated so far
    tokenReqs,  \* token requests suspended at their await, oldest first
    transports, \* this.transports: session ids of the SSE transports, in
                \* insertion order
    sessions,   \* SSE sessions opened so far
    handled,    \* how the latest HTTP request was answered
    peer        \* a second mutate call, running on a connection of its own

vars == <<store, uidNext, ncalls, pc, tool, arg, uids, folder, dest, lst, repeat,
          configured, promise, timer, fired, conn, boxMode,
          cmds, reply, affected, present, foundUIDs, unparsed, emails, result,
          http, validTokens, grants, authCodes, codes, tokenReqs, transports,
          sessions, handled, peer>>

storeVars == <<store, uidNext>>
argVars   == <<tool, arg, uids, folder, dest, lst, repeat>>
promVars  == <<configured, promise, timer, fired>>
readVars  == <<foundUIDs, unparsed, emails>>
histVars  == <<affected, present>>
httpVars  == <<http, validTokens, grants, authCodes, codes, tokenReqs,
               transports, sessions, handled>>
peerVars  == <<peer>>

(***************************************************************************)
(* validateUIDs (server.js 1139-1165) and the tests it makes.              *)
(***************************************************************************)
Falsy(x)   == \/ x.t \in {"undefined", "null"}
              \/ x.t = "number" /\ x.v = 0
              \/ x.t = "string" /\ x.v = 0
IsArray(x) == x.t = "array"

\* InvalidValue without the Number.isInteger test.
InvalidValueNoIntegerTest(n) == \/ n.t = "undefined"
                                \/ n.t = "null"
                                \/ n.t # "number"
                                \/ n.v <= 0

InvalidValue(n) == \/ n.t = "undefined"
                   \/ n.t = "null"
                   \/ n.t # "number"
                   \/ n.v <= 0
                   \/ n.v % 2 # 0

\* validateUIDs without the uids.length === 0 test.
validateUIDsNoEmptyTest(x) ==
    IF Falsy(x) THEN "uids is required"
    ELSE IF ~IsArray(x) THEN "uids must be an array"
    ELSE IF \E i \in 1..Len(x.a) : InvalidValue(x.a[i])
         THEN "uids contains invalid values (must be positive integers)"
    ELSE "null"

validateUIDs(x) ==
    IF Falsy(x) THEN "uids is required"
    ELSE IF ~IsArray(x) THEN "uids must be an array"
    ELSE IF Len(x.a) = 0 THEN "uids cannot be empty"
    ELSE IF \E i \in 1..Len(x.a) : InvalidValue(x.a[i])
         THEN "uids contains invalid values (must be positive integers)"
    ELSE "null"

\* readEmail (server.js 599-606): a value that is not an array is wrapped.
readEmail(x) == IF ~IsArray(x) THEN Arr(<<x>>) ELSE x

\* The integers of a validated uids array.
Ints(x) == [i \in 1..Len(x.a) |-> x.a[i].v \div 2]

(***************************************************************************)
(* uids.join(',') (server.js 850, 902): the source string of the command,  *)
(* as its tokens; 0 stands for the comma.  SourceSet is the UID set the    *)
(* server reads from such a string.                                        *)
(***************************************************************************)
RECURSIVE Join(_)
Join(s) == IF Len(s) = 0 THEN <<>>
           ELSE IF Len(s) = 1 THEN <<s[1]>>
           ELSE <<s[1], 0>> \o Join(Tail(s))

SourceSet(src) == {src[i] : i \in {j \in 1..Len(src) : src[j] # 0}}

(***************************************************************************)
(* The operation each mutating tool hands to modifyEmails (server.js       *)
(* 1001-1080) and the words it puts in the success message.                *)
(***************************************************************************)
\* delete_emails as a removal for good instead of a move to Trash.
OperationExpunge(t, d) ==
    CASE t = "mark_as_read"   -> [op |-> "addFlags", arg |-> "Seen"]
      [] t = "mark_as_unread" -> [op |-> "delFlags", arg |-> "Seen"]
      [] t = "flag_emails"    -> [op |-> "addFlags", arg |-> "Flagged"]
      [] t = "unflag_emails"  -> [op |-> "delFlags", arg |-> "Flagged"]
      [] t = "delete_emails"  -> [op |-> "expunge", arg |-> ""]
      [] t = "archive_emails" -> [op |-> "move", arg |-> "Archive"]
      [] t = "move_emails"    -> [op |-> "move", arg |-> d]

Operation(t, d) ==
    CASE t = "mark_as_read"   -> [op |-> "addFlags", arg |-> "Seen"]
      [] t = "mark_as_unread" -> [op |-> "delFlags", arg |-> "Seen"]
      [] t = "flag_emails"    -> [op |-> "addFlags", arg |-> "Flagged"]
      [] t = "unflag_emails"  -> [op |-> "delFlags", arg |-> "Flagged"]
      [] t = "delete_emails"  -> [op |-> "move", arg |-> "Trash"]
      [] t = "archive_emails" -> [op |-> "move", arg |-> "Archive"]
      [] t = "move_emails"    -> [op |-> "move", arg |-> d]

\* A command whose source holds the first UID only.
CommandFirstOnly(t, d, u) ==
    [op |-> Operation(t, d).op, arg |-> Operation(t, d).arg,
     byUid |-> TRUE, source |-> Join(<<Ints(u)[1]>>)]

\* The command modifyEmails issues: imap.addFlags / delFlags / move, which
\* address messages by UID (the imap.seq variants address by position).
Command(t, d, u) ==
    [op |-> Operation(t, d).op, arg |-> Operation(t, d).arg,
     byUid |-> TRUE, source |-> Join(Ints(u))]

\* A fetch that takes the numbers of the source as sequence numbers.
FetchCommandBySeq(u) ==
    [op |-> "fetch", arg |-> "", byUid |-> FALSE, source |-> Join(Ints(u))]

\* The command readEmails issues: imap.fetch(source, ...).
FetchCommand(u) ==
    [op |-> "fetch", arg |-> "", byUid |-> TRUE, source |-> Join(Ints(u))]

(***************************************************************************)
(* Results handed to the client.  kind "ok" is a resolved promise, kind    *)
(* "error" is the text "Error: <msg>" (a validation error returned by the  *)
(* tool, or a rejection caught by the request handler, server.js 360-369). *)
(* count and uids are the number and the UID list the text states.         *)
(***************************************************************************)
NoResult == [kind |-> "none", msg |-> "", count |-> 0, uids |-> <<>>]
ErrorResult(m, n, l) == [kind |-> "error", msg |-> m, count |-> n, uids |-> l]
OkResult(m, n, l)    == [kind |-> "ok", msg |-> m, count |-> n, uids |-> l]

(***************************************************************************)
(* The mail store.                                                         *)
(***************************************************************************)
InFolder(f)  == {m \in Msgs : store[m].folder = f}
UidsIn(f)    == {store[m].uid : m \in InFolder(f)}
Hit(f, src)  == {m \in InFolder(f) : store[m].uid \in SourceSet(src)}

\* Sequence number of message m: its position in its folder, oldest first.
SeqNo(m) == 1 + Cardinality({k \in InFolder(store[m].folder) :
                                store[k].uid < store[m].uid})

\* The numbers a message set names: a range a:b (-1 stands for the colon) or
\* a comma-joined list.
SourceNumbers(src) ==
    IF Len(src) = 3 /\ src[2] = -1 THEN src[1]..src[3] ELSE SourceSet(src)

\* The messages of folder f a command addresses: by UID (imap.fetch,
\* imap.addFlags, imap.delFlags, imap.move) or by sequence number (imap.seq).
Targets(f, c) ==
    IF c.byUid THEN Hit(f, c.source)
    ELSE {m \in InFolder(f) : SeqNo(m) \in SourceNumbers(c.source)}

\* Rank of message m among the messages ms, by UID: the order in which the
\* server appends moved messages to the destination folder.
Rank(m, ms) == Cardinality({k \in ms : store[k].uid < store[m].uid})

\* A server on which adding a flag a message already has takes it away.
ApplyCommandToggle(c, ms) ==
    [m \in Msgs |->
        IF m \notin ms THEN store[m]
        ELSE CASE c.op = "addFlags" ->
                     [store[m] EXCEPT !.flags =
                          IF c.arg \in @ THEN @ \ {c.arg} ELSE @ \cup {c.arg}]
               [] c.op = "delFlags" ->
                     [store[m] EXCEPT !.flags = @ \ {c.arg}]
               [] c.op = "move" ->
                     [store[m] EXCEPT !.folder = c.arg,
                                      !.uid = uidNext[c.arg] + Rank(m, ms)]
               [] c.op = "expunge" ->
                     [store[m] EXCEPT !.folder = Gone]
               [] OTHER -> store[m]]

ApplyCommand(c, ms) ==
    [m \in Msgs |->
        IF m \notin ms THEN store[m]
        ELSE CASE c.op = "addFlags" ->
                     [store[m] EXCEPT !.flags = @ \cup {c.arg}]
               [] c.op = "delFlags" ->
                     [store[m] EXCEPT !.flags = @ \ {c.arg}]
               [] c.op = "move" ->
                     [store[m] EXCEPT !.folder = c.arg,
                                      !.uid = uidNext[c.arg] + Rank(m, ms)]
               [] c.op = "expunge" ->
                     [store[m] EXCEPT !.folder = Gone]
               [] OTHER -> store[m]]

\* No HTTP request has been answered yet.
NoRequest == [path |-> "", status |-> 0, token |-> 0, asked |-> 0, to |-> 0]

\* No second call is running.
NoPeer == [pc |-> "idle", tool |-> "", uids |-> <<>>, folder |-> "", dest |-> "",
           reply |-> "", result |-> NoResult]

\* The list / search state of a call that is neither.
NoList == [count |-> 0, offset |-> 0, query |-> "", dateFrom |-> "",
           unread |-> FALSE, total |-> 0, results |-> <<>>]

Init ==
    /\ lst = NoList
    /\ repeat = FALSE
    /\ configured \in BOOLEAN
    /\ promise = "none"
    /\ timer = FALSE
    /\ fired = {}
    /\ store = [m \in Msgs |-> [folder |-> "INBOX", uid |-> m, flags |-> {}]]
    /\ uidNext = [f \in RealFolders |-> IF f = "INBOX" THEN NumMsgs + 1 ELSE 1]
    /\ ncalls = 0
    /\ pc = "idle"
    /\ tool = ""
    /\ arg = Undefined
    /\ uids = Undefined
    /\ folder = ""
    /\ dest = ""
    /\ conn = "none"
    /\ boxMode = "none"
    /\ cmds = <<>>
    /\ reply = ""
    /\ affected = {}
    /\ present = {}
    /\ foundUIDs = {}
    /\ unparsed = {}
    /\ emails = <<>>
    /\ result = NoResult
    /\ http = "off"
    /\ validTokens = {}
    /\ grants = <<>>
    /\ authCodes = {}
    /\ codes = 0
    /\ tokenReqs = <<>>
    /\ transports = <<>>
    /\ sessions = 0
    /\ handled = NoRequest
    /\ peer = NoPeer

(***************************************************************************)
(* The request handler (server.js 312-370) calls the tool.  modifyEmails   *)
(* (828-840) and readEmails (880-892) validate the uids and only then      *)
(* create the IMAP connection; read_email goes through readEmail first.    *)
(***************************************************************************)
ToolInput(t, x) == IF t = "read_email" THEN readEmail(x) ELSE x

\* The tool returns an error before it asks for a connection.
ReturnEarly(res) ==
    /\ result' = res
    /\ pc' = "done"
    /\ UNCHANGED <<conn, promise, timer>>

\* The tool calls createImapConnection (server.js 376-441): without the
\* credentials the promise rejects at once and no connection exists; else
\* the connection is created, the timer armed and imap.connect() called.
CreateImapConnection ==
    IF configured
    THEN /\ result' = result
         /\ pc' = "connecting"
         /\ conn' = "connecting"
         /\ promise' = "pending"
         /\ timer' = TRUE
    ELSE /\ result' = ErrorResult("environment variables are not set", 0, <<>>)
         /\ pc' = "done"
         /\ conn' = conn
         /\ promise' = "config"
         /\ timer' = timer

StartCall(t, x, f, d) ==
    /\ pc = "idle"
    /\ tool' = t
    /\ arg' = x
    /\ uids' = ToolInput(t, x)
    /\ folder' = f
    /\ dest' = d
    /\ lst' = lst
    /\ repeat' = FALSE
    /\ ncalls' = ncalls + 1
    /\ IF validateUIDs(ToolInput(t, x)) # "null"
       THEN ReturnEarly(ErrorResult(validateUIDs(ToolInput(t, x)), 0, <<>>))
       ELSE CreateImapConnection
    /\ UNCHANGED <<httpVars, peerVars, storeVars, configured, fired, boxMode, cmds, reply, histVars,
                   readVars>>

Call(inputs, maxCalls) ==
    /\ pc = "idle"
    /\ ncalls < maxCalls
    /\ \E t \in Tools, x \in inputs, f \in CallFolders :
         \E d \in IF t = "move_emails" THEN MoveDests ELSE {""} :
            StartCall(t, x, f, d)

(***************************************************************************)
(* createImapConnection (server.js 376-443) settles.                       *)
(***************************************************************************)
\* A promise settles once: resolve and reject do nothing to a settled one.
SettleAlways(outcome) == outcome

Settle(outcome) == IF promise = "pending" THEN outcome ELSE promise

\* What the tool does first with the connection it awaited.
AfterConnect == IF tool = "list_folders" THEN "boxes" ELSE "opening"

\* The 'ready' listener (server.js 407-410): it clears the timer and
\* resolves; the awaiting tool then goes on with the connection.
OnReady ==
    /\ conn # "none"
    /\ "ready" \notin fired
    /\ fired' = fired \cup {"ready"}
    /\ timer' = FALSE
    /\ promise' = Settle("resolved")
    /\ IF promise = "pending"
       THEN /\ conn' = "ready"
            /\ pc' = AfterConnect
       ELSE UNCHANGED <<conn, pc>>
    /\ UNCHANGED <<httpVars, peerVars, storeVars, ncalls, argVars, configured, boxMode, cmds, reply,
                   histVars, readVars, result>>

\* The 'error' listener (server.js 412-439): it clears the timer and rejects
\* with the classified message; the request handler reports the rejection.
\* The listener does not call imap.end(): the connection has failed.
\* The errors a connection reports, by what their message holds, and the
\* message the listener rejects with.
ErrorKinds == {"auth", "network", "timeout", "other"}

ErrorMessage(e) ==
    CASE e = "auth"    -> "Authentication failed: <err>"
      [] e = "network" -> "Cannot connect to Yahoo Mail servers: <err>"
      [] e = "timeout" -> "Connection timed out: <err>. Service may have been sleeping"
      [] OTHER         -> "<err>"

TimeoutMessage == "Connection timed out. Service may have been sleeping"

OnError(e) ==
    /\ conn # "none"
    /\ "error" \notin fired
    /\ fired' = fired \cup {"error"}
    /\ timer' = FALSE
    /\ promise' = Settle("error")
    /\ IF promise = "pending"
       THEN /\ conn' = "failed"
            /\ result' = ErrorResult(ErrorMessage(e), 0, <<>>)
            /\ pc' = "done"
       ELSE UNCHANGED <<conn, result, pc>>
    /\ UNCHANGED <<httpVars, peerVars, storeVars, ncalls, argVars, configured, boxMode, cmds, reply,
                   histVars, readVars>>

\* The 35 s timer runs out (server.js 401-405): imap.end() and reject.
ConnTimeout ==
    /\ timer
    /\ timer' = FALSE
    /\ conn' = "ended"
    /\ promise' = Settle("timeout")
    /\ IF promise = "pending"
       THEN /\ result' = ErrorResult(TimeoutMessage, 0, <<>>)
            /\ pc' = "done"
       ELSE UNCHANGED <<result, pc>>
    /\ UNCHANGED <<httpVars, peerVars, storeVars, ncalls, argVars, configured, fired, boxMode, cmds,
                   reply, histVars, readVars>>

\* The connection attempt ends with 'ready' or 'error'.
ConnReady == promise = "pending" /\ OnReady
ConnError == promise = "pending" /\ \E e \in ErrorKinds : OnError(e)

\* 'ready' or 'error' emitted after the promise has settled.
LateReady == promise # "pending" /\ OnReady
LateError == promise # "pending" /\ \E e \in ErrorKinds : OnError(e)

(***************************************************************************)
(* The openBox callback of modifyEmails (843-853) and readEmails (895-908).*)
(***************************************************************************)
\* The error branch without its return: the command is issued all the same.
OpenBoxErrNoReturn ==
    /\ pc = "opening"
    /\ conn' = "ended"
    /\ cmds' = Append(cmds, IF tool \in MutateTools
                             THEN Command(tool, dest, uids)
                             ELSE FetchCommand(uids))
    /\ result' = ErrorResult("Failed to open folder", 0, <<>>)
    /\ pc' = "done"
    /\ UNCHANGED <<httpVars, peerVars, storeVars, ncalls, argVars, promVars, boxMode, reply, histVars,
                   readVars>>

OpenBoxErr ==
    /\ pc = "opening"
    /\ conn' = "ended"
    /\ result' = ErrorResult("Failed to open folder", 0, <<>>)
    /\ pc' = "done"
    /\ UNCHANGED <<httpVars, peerVars, storeVars, ncalls, argVars, promVars, boxMode, cmds, reply, histVars,
                   readVars>>

ModifyOpenBoxOk ==
    /\ pc = "opening"
    /\ tool \in MutateTools
    /\ folder \in RealFolders
    /\ boxMode' = "rw"
    /\ cmds' = Append(cmds, Command(tool, dest, uids))
    /\ pc' = "executing"
    /\ UNCHANGED <<httpVars, peerVars, storeVars, ncalls, argVars, promVars, conn, reply, histVars, readVars,
                   result>>

\* readEmails opening its folder with openBox(folder, false).
ReadOpenBoxOkReadWrite ==
    /\ pc = "opening"
    /\ tool = "read_email"
    /\ folder \in RealFolders
    /\ boxMode' = "rw"
    /\ cmds' = Append(cmds, FetchCommand(uids))
    /\ pc' = "fetching"
    /\ UNCHANGED <<httpVars, peerVars, storeVars, ncalls, argVars, promVars, conn, reply, histVars, readVars,
                   result>>

ReadOpenBoxOk ==
    /\ pc = "opening"
    /\ tool = "read_email"
    /\ folder \in RealFolders
    /\ boxMode' = "ro"
    /\ cmds' = Append(cmds, FetchCommand(uids))
    /\ pc' = "fetching"
    /\ UNCHANGED <<httpVars, peerVars, storeVars, ncalls, argVars, promVars, conn, reply, histVars, readVars,
                   result>>

(***************************************************************************)
(* The IMAP server runs the command in flight (the environment of          *)
(* server.js 853, behind imap.addFlags / delFlags / move).  It applies the *)
(* command to the messages of the selected folder whose UID is in the      *)
(* command's set, silently skipping UIDs that do not exist, or it answers  *)
(* NO/BAD and changes nothing.  "errUID" is an error whose message         *)
(* contains 'UID' or 'No matching messages', "errOther" any other error.   *)
(***************************************************************************)
LastCmd == cmds[Len(cmds)]

CanApply(c, ms) ==
    c.op = "move" => /\ c.arg \in RealFolders
                     /\ uidNext[c.arg] + Cardinality(ms) <= MaxUidNext + 1

ServerOk ==
    /\ pc = "executing"
    /\ CanApply(LastCmd, Targets(folder, LastCmd))
    /\ store' = ApplyCommand(LastCmd, Targets(folder, LastCmd))
    /\ uidNext' = IF LastCmd.op = "move"
                  THEN [uidNext EXCEPT ![LastCmd.arg] =
                            @ + Cardinality(Targets(folder, LastCmd))]
                  ELSE uidNext
    /\ affected' = {store[m].uid : m \in Targets(folder, LastCmd)}
    /\ present' = UidsIn(folder)
    /\ reply' = "OK"
    /\ pc' = "replied"
    /\ UNCHANGED <<httpVars, peerVars, ncalls, argVars, promVars, conn, boxMode, cmds,
                   readVars, result>>

ServerErr ==
    /\ pc = "executing"
    /\ \E r \in {"errUID", "errOther"} : reply' = r
    /\ affected' = {}
    /\ present' = UidsIn(folder)
    /\ pc' = "replied"
    /\ UNCHANGED <<httpVars, peerVars, storeVars, ncalls, argVars, promVars, conn, boxMode, cmds, readVars,
                   result>>

(***************************************************************************)
(* The callback modifyEmails gave the operation (server.js 853-872).       *)
(***************************************************************************)
OperationCallback ==
    /\ pc = "replied"
    /\ conn' = "ended"
    /\ result' = CASE reply = "errUID" ->
                        ErrorResult("One or more UIDs not found", 0, Ints(uids))
                   [] reply = "errOther" ->
                        ErrorResult("server error", 0, <<>>)
                   [] OTHER ->
                        OkResult("Successfully", Len(Ints(uids)), Ints(uids))
    /\ pc' = "done"
    /\ UNCHANGED <<httpVars, peerVars, storeVars, ncalls, argVars, promVars, boxMode, cmds, reply, histVars,
                   readVars>>

(***************************************************************************)
(* readEmails: the events of the UID fetch (server.js 910-993).            *)
(***************************************************************************)
\* Insert u into the ascending sequence s: emails.sort((a, b) => a.uid - b.uid).
RECURSIVE Insert(_, _)
Insert(u, s) == IF Len(s) = 0 THEN <<u>>
                ELSE IF u <= s[1] THEN <<u>> \o s
                ELSE <<s[1]>> \o Insert(u, Tail(s))

\* The emails left in the order the parser callbacks pushed them.
SortByUidNone(s) == s

RECURSIVE SortByUid(_)
SortByUid(s) == IF Len(s) = 0 THEN <<>> ELSE Insert(s[1], SortByUid(Tail(s)))

\* A filter that stops at the first missing UID.
RECURSIVE MissingFirstOnly(_, _)
MissingFirstOnly(s, found) ==
    IF Len(s) = 0 THEN <<>>
    ELSE IF s[1] \in found THEN MissingFirstOnly(Tail(s), found)
    ELSE <<s[1]>>

\* uids.filter(uid => !foundUIDs.has(uid))
RECURSIVE Missing(_, _)
Missing(s, found) ==
    IF Len(s) = 0 THEN <<>>
    ELSE IF s[1] \in found THEN Missing(Tail(s), found)
    ELSE <<s[1]>> \o Missing(Tail(s), found)

\* 'message' with its 'attributes' and 'end': the UID is noted as found and
\* the body is handed to simpleParser.  The server sends each message of
\* the set once, in an order of its choosing.
FetchMessage(u) ==
    /\ pc = "fetching"
    /\ u \in {store[m].uid : m \in Targets(folder, LastCmd)}
    /\ u \notin foundUIDs
    /\ foundUIDs' = foundUIDs \cup {u}
    /\ unparsed' = unparsed \cup {u}
    /\ UNCHANGED <<httpVars, peerVars, storeVars, ncalls, argVars, promVars, pc, conn, boxMode, cmds, reply,
                   histVars, emails, result>>

\* The simpleParser callback: pushes the entry, or logs the parse error.
ParseDone(u) ==
    /\ pc = "fetching"
    /\ u \in unparsed
    /\ unparsed' = unparsed \ {u}
    /\ \/ emails' = Append(emails, u)
       \/ emails' = emails
    /\ UNCHANGED <<httpVars, peerVars, storeVars, ncalls, argVars, promVars, pc, conn, boxMode, cmds, reply,
                   histVars, foundUIDs, result>>

\* The 'error' listener of a fetch without its imap.end().
FetchErrorNoEnd ==
    /\ pc \in {"fetching", "listing", "searchfetch"}
    /\ conn' = conn
    /\ result' = ErrorResult("server error", 0, <<>>)
    /\ pc' = "done"
    /\ UNCHANGED <<httpVars, peerVars, storeVars, ncalls, argVars, promVars, boxMode, cmds, reply, histVars,
                   readVars>>

FetchError ==
    /\ pc \in {"fetching", "listing", "searchfetch"}
    /\ conn' = "ended"
    /\ result' = ErrorResult("server error", 0, <<>>)
    /\ pc' = "done"
    /\ UNCHANGED <<httpVars, peerVars, storeVars, ncalls, argVars, promVars, boxMode, cmds, reply, histVars,
                   readVars>>

\* 'end' of the fetch, once the server has sent every message of the set.
FetchEnd ==
    /\ pc = "fetching"
    /\ foundUIDs = {store[m].uid : m \in Targets(folder, LastCmd)}
    /\ conn' = "ended"
    /\ result' = IF Len(Missing(Ints(uids), foundUIDs)) > 0
                 THEN ErrorResult("UIDs not found", Len(emails),
                                  Missing(Ints(uids), foundUIDs))
                 ELSE OkResult("emails", Len(emails), SortByUid(emails))
    /\ pc' = "done"
    /\ UNCHANGED <<httpVars, peerVars, storeVars, ncalls, argVars, promVars, boxMode, cmds, reply, histVars,
                   readVars>>

(***************************************************************************)
(* list_emails (server.js 448-594).  The request handler passes            *)
(* args.count || 10 and args.offset || 0 (server.js 318): an absent value  *)
(* and 0 both give the default.                                            *)
(***************************************************************************)
DefaultCount == 10
MaxCount     == 50

Max(a, b) == IF a >= b THEN a ELSE b
OrDefault(n, dflt) == IF n = 0 THEN dflt ELSE n

\* The first position of a page that is one message too long.
startSeqOneEarlier(total, offset, count) == Max(1, total - offset - count)

startSeq(total, offset, count) == Max(1, total - offset - count + 1)
endSeq(total, offset)          == Max(1, total - offset)

\* imap.seq.fetch(`${startSeq}:${endSeq}`, ...): -1 stands for the colon.
SeqFetchCommand(s, e) ==
    [op |-> "fetch", arg |-> "", byUid |-> FALSE, source |-> <<s, -1, e>>]

StartList(c, o, f) ==
    /\ pc = "idle"
    /\ tool' = "list_emails"
    /\ arg' = arg
    /\ uids' = uids
    /\ folder' = f
    /\ dest' = dest
    /\ lst' = [NoList EXCEPT !.count = OrDefault(c, DefaultCount),
                             !.offset = OrDefault(o, 0)]
    /\ repeat' = FALSE
    /\ ncalls' = ncalls + 1
    /\ IF OrDefault(c, DefaultCount) < 1
       THEN ReturnEarly(ErrorResult("count must be at least 1", 0, <<>>))
       ELSE IF OrDefault(c, DefaultCount) > MaxCount
       THEN ReturnEarly(ErrorResult("count cannot exceed 50", 0, <<>>))
       ELSE IF OrDefault(o, 0) < 0
       THEN ReturnEarly(ErrorResult("offset must be non-negative", 0, <<>>))
       ELSE CreateImapConnection
    /\ UNCHANGED <<httpVars, peerVars, storeVars, configured, fired, boxMode, cmds, reply, histVars,
                   readVars>>

ListCounts  == {-1, 0, 1, 2, MaxCount + 1}
ListOffsets == -1..(NumMsgs + 1)

CallList(maxCalls) ==
    /\ pc = "idle"
    /\ ncalls < maxCalls
    /\ \E c \in ListCounts, o \in ListOffsets, f \in CallFolders :
          StartList(c, o, f)

\* The openBox callback of listEmails (server.js 481-536).
ListOpenBoxOk ==
    /\ pc = "opening"
    /\ tool = "list_emails"
    /\ folder \in RealFolders
    /\ boxMode' = "ro"
    /\ lst' = [lst EXCEPT !.total = Cardinality(InFolder(folder))]
    /\ IF Cardinality(InFolder(folder)) = 0
       THEN /\ conn' = "ended"
            /\ result' = OkResult("list", 0, <<>>)
            /\ cmds' = cmds
            /\ pc' = "done"
       ELSE IF startSeq(Cardinality(InFolder(folder)), lst.offset, lst.count)
                > endSeq(Cardinality(InFolder(folder)), lst.offset)
       THEN /\ conn' = "ended"
            /\ result' = OkResult("Offset exceeds available messages",
                                  Cardinality(InFolder(folder)), <<>>)
            /\ cmds' = cmds
            /\ pc' = "done"
       ELSE /\ conn' = conn
            /\ result' = result
            /\ cmds' = Append(cmds, SeqFetchCommand(
                          startSeq(Cardinality(InFolder(folder)), lst.offset, lst.count),
                          endSeq(Cardinality(InFolder(folder)), lst.offset)))
            /\ pc' = "listing"
    /\ UNCHANGED <<httpVars, peerVars, storeVars, ncalls, tool, arg, uids, folder, dest, repeat,
                   promVars, reply, histVars, readVars>>

\* Entries of the emails array of listEmails and searchEmails.
Entry(m) == [uid |-> store[m].uid, seq |-> SeqNo(m)]
EntryUids(s) == [i \in 1..Len(s) |-> s[i].uid]

\* 'message' .. 'end' of one fetched message (server.js 538-566): its entry
\* is pushed.  The server sends each message of the range once.
ListMessage(m) ==
    /\ pc = "listing"
    /\ m \in Targets(folder, LastCmd)
    /\ \A i \in 1..Len(emails) : emails[i] # Entry(m)
    /\ emails' = Append(emails, Entry(m))
    /\ UNCHANGED <<httpVars, peerVars, storeVars, ncalls, argVars, promVars, pc, conn, boxMode, cmds,
                   reply, histVars, foundUIDs, unparsed, result>>

\* emails.sort((a, b) => b.sequenceNumber - a.sequenceNumber)
RECURSIVE InsertBySeqDesc(_, _)
InsertBySeqDesc(e, s) == IF Len(s) = 0 THEN <<e>>
                         ELSE IF e.seq >= s[1].seq THEN <<e>> \o s
                         ELSE <<s[1]>> \o InsertBySeqDesc(e, Tail(s))

RECURSIVE SortBySeqDesc(_)
SortBySeqDesc(s) == IF Len(s) = 0 THEN <<>>
                    ELSE InsertBySeqDesc(s[1], SortBySeqDesc(Tail(s)))

\* 'end' of the fetch (server.js 573-591).
ListEnd ==
    /\ pc = "listing"
    /\ Len(emails) = Cardinality(Targets(folder, LastCmd))
    /\ conn' = "ended"
    /\ result' = OkResult("list", lst.total, EntryUids(SortBySeqDesc(emails)))
    /\ pc' = "done"
    /\ UNCHANGED <<httpVars, peerVars, storeVars, ncalls, argVars, promVars, boxMode, cmds, reply, histVars,
                   readVars>>

(***************************************************************************)
(* search_emails (server.js 611-798).  The request handler passes          *)
(* args.query || '' and args.count || 10 (server.js 322-330).  sender and  *)
(* dateTo are not supplied.                                                *)
(***************************************************************************)
OrEmpty(q) == IF q = "absent" THEN "" ELSE q

StartSearch(q, c, df, un, f) ==
    /\ pc = "idle"
    /\ tool' = "search_emails"
    /\ arg' = arg
    /\ uids' = uids
    /\ folder' = f
    /\ dest' = dest
    /\ lst' = [NoList EXCEPT !.query = OrEmpty(q),
                             !.count = OrDefault(c, DefaultCount),
                             !.dateFrom = df,
                             !.unread = un]
    /\ repeat' = FALSE
    /\ ncalls' = ncalls + 1
    /\ IF OrEmpty(q) = "absent"
       THEN ReturnEarly(ErrorResult("query is required", 0, <<>>))
       ELSE IF OrDefault(c, DefaultCount) < 1
       THEN ReturnEarly(ErrorResult("count must be at least 1", 0, <<>>))
       ELSE CreateImapConnection
    /\ UNCHANGED <<httpVars, peerVars, storeVars, configured, fired, boxMode, cmds, reply, histVars,
                   readVars>>

SearchQueries == {"absent", "", "q"}
SearchCounts  == {-1, 0, 1, MaxCount + 1}
SearchDates   == {"", "ok", "bad"}

CallSearch(maxCalls) ==
    /\ pc = "idle"
    /\ ncalls < maxCalls
    /\ \E q \in SearchQueries, c \in SearchCounts, df \in SearchDates,
          un \in BOOLEAN, f \in CallFolders :
          StartSearch(q, c, df, un, f)

\* The criteria searchEmails builds (server.js 650-703): a date that does
\* not parse is left out, and no criterion at all means ALL.
Criteria(l) ==
    IF l.query = "" /\ l.dateFrom # "ok" /\ ~l.unread THEN {"ALL"}
    ELSE (IF l.query # "" THEN {"TEXT"} ELSE {})
         \cup (IF l.dateFrom = "ok" THEN {"SINCE"} ELSE {})
         \cup (IF l.unread THEN {"UNSEEN"} ELSE {})

\* imap.search(criteria, ...): a UID SEARCH.
SearchCommand == [op |-> "search", arg |-> "", byUid |-> TRUE, source |-> <<>>]

\* imap.fetch(limitedResults, ...): a UID FETCH of the joined list.
SearchFetchCommand(l) ==
    [op |-> "fetch", arg |-> "", byUid |-> TRUE, source |-> Join(l)]

\* The openBox callback of searchEmails (server.js 644-706).
SearchOpenBoxOk ==
    /\ pc = "opening"
    /\ tool = "search_emails"
    /\ folder \in RealFolders
    /\ boxMode' = "ro"
    /\ cmds' = Append(cmds, SearchCommand)
    /\ pc' = "searching"
    /\ UNCHANGED <<httpVars, peerVars, storeVars, ncalls, argVars, promVars, conn, reply, histVars,
                   readVars, result>>

\* The content of the messages, which no tool changes: which ones hold the
\* query text in subject or sender and which ones are dated since dateFrom.
HasText(m)  == m % 2 = 1
IsSince(m)  == m >= 2

Matches(m, crit) ==
    /\ "TEXT" \in crit => HasText(m)
    /\ "SINCE" \in crit => IsSince(m)
    /\ "UNSEEN" \in crit => "Seen" \notin store[m].flags

\* The UIDs of a set in ascending order, as the server lists them.
RECURSIVE Ascending(_)
Ascending(S) ==
    IF S = {} THEN <<>>
    ELSE LET lo == CHOOSE u \in S : \A v \in S : u <= v
         IN  <<lo>> \o Ascending(S \ {lo})

\* The first n results instead of the last n.
SliceFirst(s, n) == SubSeq(s, 1, IF n < Len(s) THEN n ELSE Len(s))

\* results.slice(-count)
SliceLast(s, n) == SubSeq(s, Max(1, Len(s) - n + 1), Len(s))

\* The search callback with the server's UID list (server.js 706-739).
SearchOk ==
    /\ pc = "searching"
    /\ LET results == Ascending({store[m].uid : m \in
                          {k \in InFolder(folder) : Matches(k, Criteria(lst))}})
       IN  IF Len(results) = 0
           THEN /\ conn' = "ended"
                /\ result' = OkResult("search", 0, <<>>)
                /\ cmds' = cmds
                /\ lst' = lst
                /\ pc' = "done"
           ELSE /\ conn' = conn
                /\ result' = result
                /\ cmds' = Append(cmds,
                              SearchFetchCommand(SliceLast(results, lst.count)))
                /\ lst' = [lst EXCEPT !.results = results]
                /\ pc' = "searchfetch"
    /\ UNCHANGED <<httpVars, peerVars, storeVars, ncalls, tool, arg, uids, folder, dest, repeat,
                   promVars, boxMode, reply, histVars, readVars>>

\* The search callback with an error (server.js 707-711).
SearchErr ==
    /\ pc = "searching"
    /\ conn' = "ended"
    /\ result' = ErrorResult("server error", 0, <<>>)
    /\ pc' = "done"
    /\ UNCHANGED <<httpVars, peerVars, storeVars, ncalls, argVars, promVars, boxMode, cmds, reply,
                   histVars, readVars>>

\* 'message' .. 'end' of one fetched message (server.js 741-768).
SearchMessage(m) ==
    /\ pc = "searchfetch"
    /\ m \in Targets(folder, LastCmd)
    /\ \A i \in 1..Len(emails) : emails[i] # Entry(m)
    /\ emails' = Append(emails, Entry(m))
    /\ UNCHANGED <<httpVars, peerVars, storeVars, ncalls, argVars, promVars, pc, conn, boxMode, cmds,
                   reply, histVars, foundUIDs, unparsed, result>>

\* emails.sort((a, b) => b.uid - a.uid)
RECURSIVE InsertByUidDesc(_, _)
InsertByUidDesc(e, s) == IF Len(s) = 0 THEN <<e>>
                         ELSE IF e.uid >= s[1].uid THEN <<e>> \o s
                         ELSE <<s[1]>> \o InsertByUidDesc(e, Tail(s))

RECURSIVE SortByUidDesc(_)
SortByUidDesc(s) == IF Len(s) = 0 THEN <<>>
                    ELSE InsertByUidDesc(s[1], SortByUidDesc(Tail(s)))

\* 'end' of the fetch (server.js 775-795).
SearchEnd ==
    /\ pc = "searchfetch"
    /\ Len(emails) = Cardinality(Targets(folder, LastCmd))
    /\ conn' = "ended"
    /\ result' = OkResult("search", Len(lst.results),
                          EntryUids(SortByUidDesc(emails)))
    /\ pc' = "done"
    /\ UNCHANGED <<httpVars, peerVars, storeVars, ncalls, argVars, promVars, boxMode, cmds, reply,
                   histVars, readVars>>

(***************************************************************************)
(* list_folders (server.js 1170-1195).                                     *)
(***************************************************************************)
StartFolders ==
    /\ pc = "idle"
    /\ tool' = "list_folders"
    /\ repeat' = FALSE
    /\ ncalls' = ncalls + 1
    /\ CreateImapConnection
    /\ UNCHANGED <<httpVars, peerVars, storeVars, arg, uids, folder, dest, lst, configured, fired,
                   boxMode, cmds, reply, histVars, readVars>>

CallFoldersTool(maxCalls) ==
    /\ pc = "idle"
    /\ ncalls < maxCalls
    /\ StartFolders

\* The getBoxes callback: imap.end() first, then the error or the folders.
GetBoxesCallback ==
    /\ pc = "boxes"
    /\ conn' = "ended"
    /\ \/ result' = ErrorResult("Failed to retrieve folders", 0, <<>>)
       \/ result' = OkResult("folders", Cardinality(RealFolders), <<>>)
    /\ pc' = "done"
    /\ UNCHANGED <<httpVars, peerVars, storeVars, ncalls, argVars, promVars, boxMode, cmds, reply,
                   histVars, readVars>>

(***************************************************************************)
(* Requests the handler answers without running a tool (server.js 313-369):*)
(* a name that is no tool reaches the default branch, which throws; a      *)
(* request without arguments for a tool that reads args.uids throws a      *)
(* TypeError.  Both are thrown inside the try and caught.                  *)
(***************************************************************************)
NoArgs == [t |-> "noargs", v |-> 0, a |-> <<>>]

\* The default branch throwing outside the try block.
StartUnknownUncaught ==
    /\ pc = "idle"
    /\ tool' = "unknown_tool"
    /\ repeat' = FALSE
    /\ ncalls' = ncalls + 1
    /\ pc' = "thrown"
    /\ UNCHANGED <<httpVars, peerVars, storeVars, arg, uids, folder, dest, lst, promVars, conn, result,
                   boxMode, cmds, reply, histVars, readVars>>

StartUnknown ==
    /\ pc = "idle"
    /\ tool' = "unknown_tool"
    /\ repeat' = FALSE
    /\ ncalls' = ncalls + 1
    /\ ReturnEarly(ErrorResult("Unknown tool", 0, <<>>))
    /\ UNCHANGED <<httpVars, peerVars, storeVars, arg, uids, folder, dest, lst, configured, fired,
                   boxMode, cmds, reply, histVars, readVars>>

StartNoArguments(t) ==
    /\ pc = "idle"
    /\ tool' = t
    /\ arg' = NoArgs
    /\ repeat' = FALSE
    /\ ncalls' = ncalls + 1
    /\ ReturnEarly(ErrorResult("Cannot read properties of undefined", 0, <<>>))
    /\ UNCHANGED <<httpVars, peerVars, storeVars, uids, folder, dest, lst, configured, fired,
                   boxMode, cmds, reply, histVars, readVars>>

CallOther(maxCalls) ==
    /\ pc = "idle"
    /\ ncalls < maxCalls
    /\ \/ StartUnknown
       \/ \E t \in Tools : StartNoArguments(t)

(***************************************************************************)
(* The client calls again the tool whose result it has just received, with *)
(* the same arguments.                                                     *)
(***************************************************************************)
CallAgain ==
    /\ pc = "done"
    /\ ~repeat
    /\ tool \in MutateTools
    /\ result.kind = "ok"
    /\ repeat' = TRUE
    /\ ncalls' = ncalls + 1
    /\ fired' = {}
    /\ boxMode' = "none"
    /\ cmds' = <<>>
    /\ reply' = ""
    /\ affected' = {}
    /\ present' = {}
    /\ result' = NoResult
    /\ pc' = "connecting"
    /\ conn' = "connecting"
    /\ promise' = "pending"
    /\ timer' = TRUE
    /\ UNCHANGED <<httpVars, peerVars, storeVars, tool, arg, uids, folder, dest, lst, configured,
                   readVars>>

(***************************************************************************)
(* The result has been delivered; the call's state is dropped.             *)
(***************************************************************************)
\* A server that keeps the found set of a read in a field of its own.
FinishKeepsFound ==
    /\ pc = "done"
    /\ pc' = "idle"
    /\ tool' = ""
    /\ arg' = Undefined
    /\ uids' = Undefined
    /\ folder' = ""
    /\ dest' = ""
    /\ lst' = NoList
    /\ repeat' = FALSE
    /\ promise' = "none"
    /\ timer' = FALSE
    /\ fired' = {}
    /\ conn' = "none"
    /\ boxMode' = "none"
    /\ cmds' = <<>>
    /\ reply' = ""
    /\ affected' = {}
    /\ present' = {}
    /\ foundUIDs' = foundUIDs
    /\ unparsed' = {}
    /\ emails' = <<>>
    /\ result' = NoResult
    /\ UNCHANGED <<httpVars, peerVars, storeVars, ncalls, configured>>

Finish ==
    /\ pc = "done"
    /\ pc' = "idle"
    /\ tool' = ""
    /\ arg' = Undefined
    /\ uids' = Undefined
    /\ folder' = ""
    /\ dest' = ""
    /\ lst' = NoList
    /\ repeat' = FALSE
    /\ promise' = "none"
    /\ timer' = FALSE
    /\ fired' = {}
    /\ conn' = "none"
    /\ boxMode' = "none"
    /\ cmds' = <<>>
    /\ reply' = ""
    /\ affected' = {}
    /\ present' = {}
    /\ foundUIDs' = {}
    /\ unparsed' = {}
    /\ emails' = <<>>
    /\ result' = NoResult
    /\ UNCHANGED <<httpVars, peerVars, storeVars, ncalls, configured>>

Step ==
    \/ ConnReady
    \/ ConnError
    \/ ConnTimeout
    \/ OpenBoxErr
    \/ ModifyOpenBoxOk
    \/ ReadOpenBoxOk
    \/ ServerOk
    \/ ServerErr
    \/ OperationCallback
    \/ \E u \in 1..MaxUID : FetchMessage(u)
    \/ \E u \in 1..MaxUID : ParseDone(u)
    \/ FetchError
    \/ FetchEnd
    \/ ListOpenBoxOk
    \/ \E m \in Msgs : ListMessage(m)
    \/ ListEnd
    \/ SearchOpenBoxOk
    \/ SearchOk
    \/ SearchErr
    \/ \E m \in Msgs : SearchMessage(m)
    \/ SearchEnd
    \/ GetBoxesCallback
    \/ Finish

\* Calls with well-formed and a few ill-formed inputs, one after the other.
Calls(inputs, maxCalls) ==
    \/ Call(inputs, maxCalls)
    \/ CallList(maxCalls)
    \/ CallSearch(maxCalls)
    \/ CallFoldersTool(maxCalls)
    \/ CallOther(maxCalls)

Next == Calls(SortedInputs, MaxCalls) \/ Step

Spec == Init /\ [][Next]_vars

\* One call with any input value, to examine validation.
NextV == Calls(WideInputs, 1) \/ Step

\* One call, and the same call once more after it has succeeded.
NextR == Calls(NarrowInputs, 1) \/ CallAgain \/ Step
SpecR == Init /\ [][NextR]_vars

\* One call, with the connection's events also arriving late; the timer the
\* call arms runs out unless a listener clears it.
NextC == Calls(NarrowInputs, 1) \/ LateReady \/ LateError \/ Step
SpecC == Init /\ [][NextC]_vars /\ WF_vars(ConnTimeout)

\* One call that the mail server keeps answering: no step of the call stays
\* possible for ever without being taken.
SpecF == Init /\ [][NextR]_vars /\ WF_vars(Step)

SpecV == Init /\ [][NextV]_vars

(***************************************************************************)
(* Properties.                                                             *)
(***************************************************************************)
Range(s)  == {s[i] : i \in 1..Len(s)}
Occ(s, u) == Cardinality({i \in 1..Len(s) : s[i] = u})
NoDup(s)  == \A i, j \in 1..Len(s) : s[i] = s[j] => i = j

\* The identifier set U of a call whose uids passed validation.
U == Range(Ints(uids))

\* A mutate call has delivered its result after the server answered its command.
MutateDone == pc = "done" /\ tool \in MutateTools /\ reply # ""

\* What the delivered result reports as succeeded and as failed.
Succeeded      == IF result.kind = "ok" THEN result.uids ELSE <<>>
Failed         == IF result.kind = "error" THEN result.uids ELSE <<>>
SucceededCount == IF result.kind = "ok" THEN result.count ELSE 0

ValidationMsgs == {"uids is required", "uids must be an array",
                   "uids cannot be empty",
                   "uids contains invalid values (must be positive integers)"}

\* C1: the result of a mutate call on an identifier set U partitions U:
\* every identifier of U is exactly once in succeeded or failed, no other is.
C1_ResultPartitionsU ==
    (MutateDone /\ NoDup(Ints(uids))) =>
        \A u \in 1..MaxUID :
            Occ(Succeeded \o Failed, u) = IF u \in U THEN 1 ELSE 0

\* C2: the succeeded count a mutate call reports is the number of
\* identifiers of U whose message the call actually affected in the store.
C2_CountIsAffected ==
    (MutateDone /\ NoDup(Ints(uids))) => SucceededCount = Cardinality(affected)

\* C3: for U of size 3 with exactly one identifier that does not exist, the
\* failed list holds that identifier and the succeeded count is 2.
C3_OneOfThreeRejected ==
    (MutateDone /\ NoDup(Ints(uids)) /\ Len(Ints(uids)) = 3
                /\ Cardinality(U \ present) = 1) =>
        /\ Range(Failed) = U \ present
        /\ SucceededCount = 2

\* The rules of the identifier validator, stated on the value itself.
PositiveInteger(n) == n.t = "number" /\ n.v > 0 /\ n.v % 2 = 0
WellFormed(x) == /\ x.t = "array"
                 /\ Len(x.a) > 0
                 /\ \A i \in 1..Len(x.a) : PositiveInteger(x.a[i])

\* The value a tool validates: read_email puts a value that is not an array
\* into a one-element array first.
Effective == IF tool = "read_email" /\ arg.t # "array" THEN Arr(<<arg>>) ELSE arg

Started         == pc # "idle" /\ tool \in Tools /\ arg # NoArgs
NoSession       == conn = "none" /\ boxMode = "none" /\ cmds = <<>>
ValidationError == pc = "done" /\ result.kind = "error"
                              /\ result.msg \in ValidationMsgs

\* C4 (as stated): for read_email and every mutate tool, an identifier input
\* that fails validation (absent, not an array, empty, or with an element
\* that is not a positive integer) gets a validation error and no
\* connection is created and no folder opened.
C4_InvalidInputNoConnection ==
    (Started /\ ~WellFormed(arg)) => (NoSession /\ ValidationError)

\* C4 (amended): the same for every mutate tool; read_email validates the
\* input after wrapping a non-array value into a one-element array, so only
\* a wrapped input that fails validation is rejected without a connection.
C4_InvalidEffectiveInputNoConnection ==
    (Started /\ ~WellFormed(Effective)) => (NoSession /\ ValidationError)

C4_Witness ==
    /\ pc = "done"
    /\ tool = "read_email"
    /\ arg = Str(1)
    /\ NoSession
    /\ ValidationError

\* The classification a call shows to the client.
Observed ==
    IF ~ValidationError THEN "Accepted"
    ELSE CASE result.msg = "uids is required"      -> "MissingInput"
           [] result.msg = "uids must be an array" -> "WrongShape"
           [] result.msg = "uids cannot be empty"  -> "EmptyBatch"
           [] OTHER                                -> "InvalidIdentifier"

Classify(x, missing) ==
    IF missing THEN "MissingInput"
    ELSE IF x.t # "array" THEN "WrongShape"
    ELSE IF Len(x.a) = 0 THEN "EmptyBatch"
    ELSE IF \E i \in 1..Len(x.a) : ~PositiveInteger(x.a[i])
         THEN "InvalidIdentifier"
    ELSE "Accepted"

Absent(x) == x.t \in {"undefined", "null"}
FalsyValue(x) == Absent(x) \/ x = Num(0) \/ x = Str(0)

\* C5 (as stated): every tool classifies the identifier input by the first
\* failing rule: absent gives MissingInput, not an array WrongShape, empty
\* EmptyBatch, an element that is not a positive integer InvalidIdentifier;
\* read_email classifies a missing or a single non-array value the same way.
C5_ClassifiedByFirstFailingRule ==
    Started => Observed = Classify(arg, Absent(arg))

\* C5 (amended): MissingInput is given to every falsy value (absent, null,
\* 0, the empty string), and read_email classifies the one-element array it
\* wraps a non-array value into.
C5_ClassifiedAsValidated ==
    Started => Observed = Classify(Effective, FalsyValue(Effective))

C5_Witness ==
    /\ pc = "done"
    /\ tool = "read_email"
    /\ arg = Undefined
    /\ Observed = "InvalidIdentifier"

\* C6: a UID given more than once is counted once: the number of emails
\* reported as processed is the number of distinct UIDs of the input.
C6_DuplicatesCountedOnce ==
    (MutateDone /\ result.kind = "ok") => result.count = Cardinality(U)

C8_ContinuesAfterFailure ==
    (MutateDone /\ U \ present # {}) =>
        /\ U \cap present \subseteq affected
        /\ \A u \in U :
              IF u \in affected
              THEN u \in Range(Succeeded) /\ u \notin Range(Failed)
              ELSE u \in Range(Failed) /\ u \notin Range(Succeeded)

\* C9: a mutate call that fails at validation or at folder-open issues no
\* command, changes no message, and returns a failure for the whole call.
C9_AbortBeforeMutation ==
    /\ []((pc = "done" /\ tool \in MutateTools /\ boxMode = "none") =>
            /\ cmds = <<>>
            /\ affected = {}
            /\ result.kind = "error"
            /\ result.uids = <<>>
            /\ result.count = 0)
    /\ [][(tool' \in MutateTools /\ boxMode' = "none") =>
            (store' = store /\ uidNext' = uidNext /\ cmds' = <<>>)]_vars

C9_Witness ==
    /\ pc = "done"
    /\ tool \in MutateTools
    /\ result.msg = "Failed to open folder"
    /\ Len(Ints(uids)) >= 2
    /\ \E m \in Msgs : store[m].folder # "INBOX"

\* C10: a read call for a set with existing and non-existing identifiers
\* returns the content of every existing one and reports the missing ones.
ContentOf == IF result.kind = "ok" /\ result.msg = "emails"
             THEN Range(result.uids) ELSE {}
NotFound  == IF result.kind = "error" /\ result.msg = "UIDs not found"
             THEN Range(result.uids) ELSE {}

C10_ReadReturnsFoundAndMissing ==
    (/\ pc = "done" /\ tool = "read_email" /\ boxMode = "ro"
     /\ result.msg # "server error"
     /\ U \cap UidsIn(folder) # {}
     /\ U \ UidsIn(folder) # {}) =>
        /\ ContentOf = U \cap UidsIn(folder)
        /\ NotFound = U \ UidsIn(folder)

\* C11: after the bulk fetch of a read call completes, the identifiers
\* reported as not found are exactly the requested identifiers for which the
\* server returned no message.
C11_NotFoundIsRequestedMinusReturned ==
    (/\ pc = "done" /\ tool = "read_email" /\ boxMode = "ro"
     /\ result.msg \in {"emails", "UIDs not found"}) =>
        NotFound = U \ UidsIn(folder)

C11_Witness ==
    /\ pc = "done"
    /\ tool = "read_email"
    /\ result.msg = "UIDs not found"
    /\ Len(Ints(uids)) = 3
    /\ NotFound = {3}
    /\ foundUIDs = {1, 2}

\* C12: a list_emails call whose offset is at least the number of messages in
\* the folder performs no fetch and returns an empty emails list together with
\* the true total count.
C12_OffsetBeyondTotalReturnsEmpty ==
    (/\ tool = "list_emails" /\ boxMode = "ro" /\ lst.offset >= lst.total) =>
        /\ cmds = <<>>
        /\ (pc = "done" /\ result.kind = "ok") =>
               (result.uids = <<>> /\ result.count = lst.total)

\* The tools that only set or clear a flag.
FlagTools == {"mark_as_read", "mark_as_unread", "flag_emails", "unflag_emails"}

\* C13: a flag tool called a second time with the same identifiers, right
\* after it succeeded, leaves the store as the first call left it, and it
\* reports success again, with the same result, whenever the server accepts
\* the command; it is never turned down by validation.
C13_SecondFlagCallChangesNothing ==
    /\ [][(repeat /\ tool \in FlagTools /\ pc = "executing") =>
              store' = store]_vars
    /\ [](/\ (repeat /\ tool \in FlagTools /\ pc = "done" /\ reply = "OK") =>
                 result = OkResult("Successfully", Len(Ints(uids)), Ints(uids))
          /\ (repeat /\ tool \in FlagTools /\ pc = "done") =>
                 result.msg \notin ValidationMsgs)

C13_Witness ==
    /\ repeat
    /\ pc = "done"
    /\ tool = "mark_as_read"
    /\ folder = "INBOX"
    /\ Ints(uids) = <<1, 2>>
    /\ result.kind = "ok"
    /\ \A m \in Msgs : store[m].flags = {"Seen"}

\* The states of a call of the batch engine, read off the position of the
\* call: the terminal Failed state is a call that ends with an error and no
\* per-identifier result.
Phase ==
    CASE pc = "idle"                        -> "Validating"
      [] pc \in {"connecting", "opening"}   -> "FolderOpening"
      [] pc \in {"executing", "fetching"}   -> "Executing"
      [] pc = "replied"                     -> "Aggregating"
      [] pc = "done" /\ result.kind = "error" -> "Failed"
      [] OTHER                              -> "Done"

\* C14: a call of a mutate tool or of read_email reaches Failed only from
\* Validating or FolderOpening; once it is Executing, a failure leads on to
\* Aggregating and a delivered result, never to Failed.
C14_FailedOnlyBeforeExecuting ==
    [][(tool' \in Tools /\ Phase' = "Failed" /\ Phase # "Failed") =>
           /\ Phase \in {"Validating", "FolderOpening"}
           /\ cmds = <<>>]_vars

\* The message of folder f that UID u designates, if any.
Designated(f, u) == {m \in InFolder(f) : store[m].uid = u}

\* C15: within a folder a UID designates one message and keeps designating
\* it: a message changes folder or UID only when a mutate call names its own
\* UID in its folder, and it then gets a UID its new folder never used.  The
\* entries list_emails and search_emails return carry the UID of the message,
\* and every command a read or mutate call issues selects its messages by
\* UID, the ones the identifiers designate, never by sequence position.
C15_UidKeepsDesignatingMessage ==
    /\ [](/\ \A f \in RealFolders, u \in 1..MaxUidNext :
                Cardinality(Designated(f, u)) <= 1
          /\ \A m \in Msgs : store[m].folder \in RealFolders =>
                store[m].uid < uidNext[store[m].folder]
          /\ tool \in Tools \cup {"search_emails"} =>
                \A i \in 1..Len(cmds) : cmds[i].byUid
          /\ (tool \in Tools /\ cmds # <<>>) =>
                Targets(folder, LastCmd) =
                    UNION {Designated(folder, u) : u \in U}
          /\ tool \in {"list_emails", "search_emails"} =>
                \A i \in 1..Len(emails) :
                    \E m \in InFolder(folder) :
                        /\ emails[i] = Entry(m)
                        /\ Designated(folder, emails[i].uid) = {m})
    /\ [][\A m \in Msgs :
             (store'[m].folder # store[m].folder \/ store'[m].uid # store[m].uid) =>
                 /\ tool \in MutateTools
                 /\ m \in Designated(folder, store[m].uid)
                 /\ store[m].uid \in U
                 /\ store'[m].uid >= uidNext[store'[m].folder]]_vars

\* read_email of UID 2 after the message with UID 1 has left INBOX: UID 2
\* still designates message 2, now first in the folder.
C15_Witness ==
    /\ pc = "done"
    /\ tool = "read_email"
    /\ folder = "INBOX"
    /\ Ints(uids) = <<2>>
    /\ store[1].folder = "Trash"
    /\ SeqNo(2) = 1
    /\ foundUIDs = {2}
    /\ result = OkResult("emails", 1, <<2>>)

\* C16: a call creates a connection at most once, when it starts; whenever
\* it delivers its result the connection it was given (the promise resolved)
\* or was still waiting for (the timer ran out) has been ended with
\* imap.end(), and a connection that reported an error never became usable.
\* Commands are issued only on the call's own ready connection, and between
\* calls no connection exists.
C16_OneConnectionEndedBeforeResult ==
    /\ [](/\ pc = "done" => conn \in {"none", "ended", "failed"}
          /\ (pc = "done" /\ promise \in {"resolved", "timeout"}) => conn = "ended"
          /\ conn = "failed" => (promise = "error" /\ cmds = <<>>)
          /\ (pc = "done" /\ conn = "none") => promise \in {"none", "config"}
          /\ pc = "idle" => (conn = "none" /\ promise = "none" /\ ~timer))
    /\ [][(conn' = "connecting" /\ conn # "connecting") =>
              (pc = "idle" /\ conn = "none")]_vars
    /\ [][(cmds' # cmds /\ cmds' # <<>>) =>
              (conn = "ready" /\ promise = "resolved" /\ pc # "idle")]_vars

\* list_emails whose fetch reports an error: the connection has been ended.
C16_Witness ==
    /\ pc = "done"
    /\ tool = "list_emails"
    /\ boxMode = "ro"
    /\ Len(cmds) = 1
    /\ result = ErrorResult("server error", 0, <<>>)
    /\ promise = "resolved"
    /\ conn = "ended"

Settled == promise \in {"resolved", "error", "timeout", "config"}

\* C17: createImapConnection settles, and once: it resolves on 'ready',
\* rejects on 'error', and when the timer runs out with neither having
\* happened it ends the connection and rejects with the timeout message,
\* which no error message equals.  A settled promise keeps its outcome, and
\* the call its state, when 'ready' or 'error' arrives afterwards; the timer
\* is armed only while the promise is pending, and a pending promise settles.
C17_SettlesExactlyOnce ==
    /\ [](/\ timer => promise = "pending"
          /\ promise = "pending" => (timer /\ pc = "connecting")
          /\ promise = "timeout" =>
                (result = ErrorResult(TimeoutMessage, 0, <<>>) /\ conn = "ended")
          /\ promise = "error" =>
                (\E e \in ErrorKinds : result = ErrorResult(ErrorMessage(e), 0, <<>>))
          /\ \A e \in ErrorKinds : ErrorMessage(e) # TimeoutMessage)
    /\ [][Settled => (promise' = promise \/ pc' = "idle")]_vars
    /\ [][(promise = "pending" /\ promise' # "pending") =>
              CASE promise' = "resolved" -> fired' = fired \cup {"ready"} /\ pc' = AfterConnect
                [] promise' = "error"    -> fired' = fired \cup {"error"} /\ pc' = "done"
                [] promise' = "timeout"  -> fired' = {} /\ pc' = "done"
                [] OTHER                 -> FALSE]_vars
    /\ [][(Settled /\ fired' # fired /\ fired' # {}) =>
              (promise' = promise /\ result' = result /\ pc' = pc /\ conn' = conn)]_vars
    /\ (promise = "pending") ~> (promise # "pending")

\* Both events arrive after the timer has settled the promise.
C17_Witness ==
    /\ promise = "timeout"
    /\ fired = {"ready", "error"}
    /\ pc = "done"
    /\ conn = "ended"
    /\ result = ErrorResult(TimeoutMessage, 0, <<>>)

MutatingOps == {"addFlags", "delFlags", "move", "expunge"}

\* C18: a mutate tool has its folder open read-write, and list_emails,
\* read_email and search_emails have theirs open read-only and issue no
\* mutating command: no step of a list, read or search call changes the
\* flags, the folder or the UID of a message.
C18_ReadToolsOpenReadOnly ==
    /\ [](/\ (tool \in MutateTools /\ boxMode # "none") => boxMode = "rw"
          /\ (tool \in {"list_emails", "read_email", "search_emails"}
                 /\ boxMode # "none") => boxMode = "ro"
          /\ (tool \in MutateTools /\ cmds # <<>>) => boxMode = "rw"
          /\ \A i \in 1..Len(cmds) :
                cmds[i].op \in MutatingOps => (tool \in MutateTools /\ boxMode = "rw"))
    /\ [][(store' # store \/ uidNext' # uidNext) =>
              (tool \in MutateTools /\ boxMode = "rw")]_vars

\* search_emails for unread messages after message 1 was marked read: it
\* returns message 2 and the flags are as they were.
C18_Witness ==
    /\ pc = "done"
    /\ tool = "search_emails"
    /\ boxMode = "ro"
    /\ lst.unread
    /\ store[1].flags = {"Seen"}
    /\ store[2].flags = {}
    /\ result = OkResult("search", 1, <<2>>)

\* C19: the UIDs of a successful read response ascend, and they are the
\* UIDs of the parsed messages, in whatever order those arrived and the
\* caller listed them.
C19_ReadResponseAscending ==
    (pc = "done" /\ tool = "read_email" /\ result.kind = "ok") =>
        /\ \A i, j \in 1..Len(result.uids) :
              i < j => result.uids[i] < result.uids[j]
        /\ Range(result.uids) = Range(emails)
        /\ Len(result.uids) = Len(emails)

C19_Witness ==
    /\ pc = "done"
    /\ tool = "read_email"
    /\ Ints(uids) = <<2, 1>>
    /\ emails = <<2, 1>>
    /\ result = OkResult("emails", 2, <<1, 2>>)

\* C20: every message is in a folder of the account at all times.  A message
\* changes folder only in a delete, archive or move call that names it, going
\* to Trash, Archive or the named folder with its flags kept; flags change
\* only in a call of a flag tool, which moves nothing.
C20_NoMessageRemoved ==
    /\ [](\A m \in Msgs : store[m].folder \in RealFolders)
    /\ [][\A m \in Msgs :
             /\ store'[m].folder # store[m].folder =>
                   /\ tool \in {"delete_emails", "archive_emails", "move_emails"}
                   /\ store[m].folder = folder /\ store[m].uid \in U
                   /\ store'[m].folder = CASE tool = "delete_emails"  -> "Trash"
                                           [] tool = "archive_emails" -> "Archive"
                                           [] OTHER                   -> dest
                   /\ store'[m].flags = store[m].flags
             /\ store'[m].flags # store[m].flags =>
                   /\ tool \in FlagTools
                   /\ store[m].folder = folder /\ store[m].uid \in U
                   /\ store'[m].folder = store[m].folder
                   /\ store'[m].uid = store[m].uid]_vars

\* Message 1 deleted, then message 2 archived: both are still in the account.
C20_Witness ==
    /\ pc = "done"
    /\ tool = "archive_emails"
    /\ result.kind = "ok"
    /\ store[1].folder = "Trash"
    /\ store[2].folder = "Archive"

\* Everything a call holds besides the mail store, as it is before any call.
CallStateInitial ==
    /\ tool = "" /\ arg = Undefined /\ uids = Undefined
    /\ folder = "" /\ dest = "" /\ lst = NoList /\ ~repeat
    /\ promise = "none" /\ ~timer /\ fired = {}
    /\ conn = "none" /\ boxMode = "none" /\ cmds = <<>> /\ reply = ""
    /\ affected = {} /\ present = {}
    /\ foundUIDs = {} /\ unparsed = {} /\ emails = <<>>
    /\ result = NoResult

\* C22: nothing but the mail store survives from one call to the next: every
\* call starts from the state the first call started from, so what it returns
\* is fixed by its arguments, the store and the server's answers.  For a
\* mutate call that is the answer to its command and the identifier list, for
\* a read the identifiers, the messages found in the folder and the parsed
\* messages.
C22_ResultIndependentOfEarlierCalls ==
    /\ pc = "idle" => CallStateInitial
    /\ MutateDone =>
          result \in {OkResult("Successfully", Len(Ints(uids)), Ints(uids)),
                      ErrorResult("One or more UIDs not found", 0, Ints(uids)),
                      ErrorResult("server error", 0, <<>>)}
    /\ (MutateDone /\ reply = "OK") => result.kind = "ok"
    /\ (tool = "read_email" /\ boxMode = "ro") =>
          /\ foundUIDs \subseteq U \cap UidsIn(folder)
          /\ Range(emails) \subseteq foundUIDs
    /\ (pc = "done" /\ tool = "read_email" /\ result.msg = "UIDs not found") =>
          Range(result.uids) = U \ UidsIn(folder)

\* A second call, a read, that starts after an earlier call has finished.
C22_Witness ==
    /\ ncalls = 2
    /\ pc = "done"
    /\ tool = "read_email"
    /\ store[1].folder = "Trash"
    /\ folder = "Trash"
    /\ result = ErrorResult("UIDs not found", 0, <<2>>)

\* The number of emails a list or search call may return: the count it
\* works with once its arguments have passed validation.
Limit == lst.count

\* C23: a list_emails or search_emails call that is not rejected works with
\* a count of at most 50, so that its response holds at most 50 emails.
C23_AtMostFiftyEmails ==
    (tool \in {"list_emails", "search_emails"} /\ promise # "none") =>
        /\ Limit <= MaxCount
        /\ Len(result.uids) <= MaxCount

\* C25: a successful read response holds one entry for each requested UID:
\* it is built when no fetched message is still being parsed, and no message
\* is left out of it.
C25_ResponseHoldsEveryRequestedMessage ==
    (pc = "done" /\ tool = "read_email" /\ result.kind = "ok") =>
        /\ unparsed = {}
        /\ Range(result.uids) = U
        /\ result.count = Cardinality(U)

Min(a, b) == IF a <= b THEN a ELSE b

\* The UID of the message at sequence position p of folder f.
UidAt(f, p) == CHOOSE u \in UidsIn(f) :
                  \E m \in InFolder(f) : store[m].uid = u /\ SeqNo(m) = p

\* The sequence positions of the page of a folder of t messages that
\* list_emails(c, o) asks for.
PagePositions(t, c, o) == startSeq(t, o, c)..endSeq(t, o)

\* The offsets 0, c, 2c, ... below t.
PageOffsets(t, c) == {o \in 0..(t - 1) : o % c = 0}

\* C27: for 0 <= offset < total, list_emails returns the messages at
\* positions max(1, total-offset-count+1) .. total-offset, newest first,
\* min(count, total-offset) of them, with the total; and for every folder
\* size and count the pages at offsets 0, count, 2*count, ... are pairwise
\* disjoint and cover every position once.
C27_PageIsTheRequestedRange ==
    /\ (/\ pc = "done" /\ tool = "list_emails" /\ result.kind = "ok"
        /\ lst.total > 0 /\ lst.offset < lst.total) =>
           /\ Len(result.uids) = Min(lst.count, lst.total - lst.offset)
           /\ \A i \in 1..Len(result.uids) :
                 result.uids[i] = UidAt(folder, lst.total - lst.offset - i + 1)
           /\ result.count = lst.total
    /\ \A t \in 1..(NumMsgs + 2), c \in 1..(NumMsgs + 3) :
           /\ UNION {PagePositions(t, c, o) : o \in PageOffsets(t, c)} = 1..t
           /\ \A o1, o2 \in PageOffsets(t, c) :
                 o1 # o2 => PagePositions(t, c, o1) \cap PagePositions(t, c, o2) = {}

\* The second page of one message of an INBOX of two or more messages.
C27_Witness ==
    /\ pc = "done"
    /\ tool = "list_emails"
    /\ folder = "INBOX"
    /\ lst.count = 1
    /\ lst.offset = 1
    /\ lst.total = NumMsgs
    /\ result = OkResult("list", NumMsgs, <<NumMsgs - 1>>)

\* The UIDs of the messages of the searched folder that match the criteria.
MatchingUids == {store[m].uid : m \in {k \in InFolder(folder) :
                                          Matches(k, Criteria(lst))}}

\* The n highest numbers of S.
Highest(S, n) == {u \in S : Cardinality({v \in S : v > u}) < n}

KnownTools == Tools \cup {"list_emails", "search_emails", "list_folders"}

\* The operation of the call was rejected: by the connection, by the folder
\* open, or by the server's answer to the command, the search or the fetch.
Rejected ==
    \/ promise \in {"config", "error", "timeout"}
    \/ tool \in Tools /\ promise = "resolved" /\ cmds = <<>>
    \/ reply \in {"errUID", "errOther"}

MaxCodes    == 1   \* authorization codes the server generates
MaxTokens   == 2   \* token requests that get as far as the grant
MaxSessions == 1   \* SSE sessions opened

NoToken == 0       \* a request without an Authorization: Bearer header
NoId    == 0       \* a request without a session id / without a code

mailVars == <<storeVars, ncalls, pc, argVars, promVars, conn, boxMode, cmds,
              reply, histVars, readVars, result>>

\* runSSE starts listening; process.env holds both OAUTH_CLIENT_ID and
\* OAUTH_CLIENT_SECRET ("oauth") or lacks one of them ("open").
StartHttpServer ==
    /\ http = "off"
    /\ \E m \in {"open", "oauth"} : http' = m
    /\ UNCHANGED <<mailVars, peerVars, validTokens, grants, authCodes, codes,
                   tokenReqs, transports, sessions, handled>>

Answer(p, s, t, a, to) ==
    [path |-> p, status |-> s, token |-> t, asked |-> a, to |-> to]

\* authenticateMCP for a path that is not exempt: what it answers, or "next".
authenticateMCP(tok) ==
    IF http # "oauth" THEN "next"
    ELSE IF tok = NoToken THEN "unauthorized"
    ELSE IF tok \notin validTokens THEN "invalid_token"
    ELSE "next"

\* GET /oauth/authorize: a request that passes the three tests (client_id,
\* response_type, redirect_uri) gets a new code, stored with its PKCE
\* challenge if the request carried one.
Authorize(ok, pkce) ==
    /\ http # "off"
    /\ codes < MaxCodes
    /\ IF ok
       THEN /\ codes' = codes + 1
            /\ authCodes' = authCodes \cup
                              {[code |-> codes + 1, challenge |-> pkce]}
            /\ handled' = Answer("/oauth/authorize", "redirect", NoToken,
                                 NoId, NoId)
       ELSE /\ handled' = Answer("/oauth/authorize", "bad_request", NoToken,
                                 NoId, NoId)
            /\ UNCHANGED <<codes, authCodes>>
    /\ UNCHANGED <<mailVars, peerVars, http, validTokens, grants, tokenReqs,
                   transports, sessions>>

\* A token endpoint that takes any client id and secret.
ValidCredentialsAny(cr) == TRUE

\* reqClientId === clientId && reqClientSecret === clientSecret.
ValidCredentials(cr) == cr = "good"

HasCode(c)   == \E a \in authCodes : a.code = c
Challenge(c) == \E a \in authCodes : a.code = c /\ a.challenge

\* this.authCodes.delete(code); this.validTokens.add(accessToken); res.json.
Redeem(c, cr) ==
    /\ authCodes' = {a \in authCodes : a.code # c}
    /\ validTokens' = validTokens \cup {Len(grants) + 1}
    /\ grants' = Append(grants, [code |-> c, creds |-> cr])
    /\ handled' = Answer("/oauth/token", "ok", Len(grants) + 1, NoId, NoId)

RejectToken(s, c) ==
    /\ handled' = Answer("/oauth/token", s, NoToken, NoId, NoId)
    /\ UNCHANGED <<validTokens, grants, authCodes>>

\* POST /oauth/token up to its first await, or to its response if it does
\* not reach one.  With a stored code_challenge the handler suspends at
\* `await import('crypto')`, after this.authCodes.has(code) and before
\* this.authCodes.delete(code).
TokenRequest(cr, grant, c, v) ==
    /\ http # "off"
    /\ Len(grants) + Len(tokenReqs) < MaxTokens
    /\ IF http = "open"
       THEN RejectToken("server_error", c) /\ tokenReqs' = tokenReqs
       ELSE IF ~ValidCredentials(cr)
       THEN RejectToken("invalid_client", c) /\ tokenReqs' = tokenReqs
       ELSE IF grant = "authorization_code"
       THEN IF ~HasCode(c)
            THEN RejectToken("invalid_grant", c) /\ tokenReqs' = tokenReqs
            ELSE IF Challenge(c)
            THEN /\ tokenReqs' = Append(tokenReqs,
                                   [code |-> c, creds |-> cr, verifier |-> v])
                 /\ UNCHANGED <<validTokens, grants, authCodes, handled>>
            ELSE Redeem(c, cr) /\ tokenReqs' = tokenReqs
       ELSE IF grant = "client_credentials"
       THEN /\ validTokens' = validTokens \cup {Len(grants) + 1}
            /\ grants' = Append(grants, [code |-> NoId, creds |-> cr])
            /\ handled' = Answer("/oauth/token", "ok", Len(grants) + 1, NoId,
                                 NoId)
            /\ UNCHANGED <<authCodes, tokenReqs>>
       ELSE RejectToken("unsupported_grant_type", c) /\ tokenReqs' = tokenReqs
    /\ UNCHANGED <<mailVars, peerVars, http, codes, transports, sessions>>

\* A suspended token request resumes: the PKCE comparison, then the code is
\* deleted and the token issued.
TokenResume(i) ==
    /\ i \in 1..Len(tokenReqs)
    /\ tokenReqs' = [k \in 1..(Len(tokenReqs) - 1) |->
                        IF k < i THEN tokenReqs[k] ELSE tokenReqs[k + 1]]
    /\ IF tokenReqs[i].verifier # "right"
       THEN RejectToken("invalid_grant", tokenReqs[i].code)
       ELSE Redeem(tokenReqs[i].code, tokenReqs[i].creds)
    /\ UNCHANGED <<mailVars, peerVars, http, codes, transports, sessions>>

\* GET /mcp/sse: a new transport, stored under its session id.
McpSse(tok) ==
    /\ http # "off"
    /\ IF authenticateMCP(tok) # "next"
       THEN /\ handled' = Answer("/mcp/sse", authenticateMCP(tok), tok, NoId,
                                 NoId)
            /\ UNCHANGED <<transports, sessions>>
       ELSE /\ sessions < MaxSessions
            /\ sessions' = sessions + 1
            /\ transports' = Append(transports, sessions + 1)
            /\ handled' = Answer("/mcp/sse", "ok", tok, NoId, sessions + 1)
    /\ UNCHANGED <<mailVars, peerVars, http, validTokens, grants, authCodes,
                   codes, tokenReqs>>

\* The transport POST /mcp/message hands the request to: the one stored
\* under the session id, else the first of this.transports, else none.
Transport(sid) ==
    IF sid # NoId /\ \E k \in 1..Len(transports) : transports[k] = sid
    THEN sid
    ELSE IF Len(transports) > 0 THEN transports[1] ELSE NoId

McpMessage(tok, sid) ==
    /\ http # "off"
    /\ handled' = IF authenticateMCP(tok) # "next"
                  THEN Answer("/mcp/message", authenticateMCP(tok), tok, sid,
                              NoId)
                  ELSE IF Transport(sid) = NoId
                  THEN Answer("/mcp/message", "not_found", tok, sid, NoId)
                  ELSE Answer("/mcp/message", "ok", tok, sid, Transport(sid))
    /\ UNCHANGED <<mailVars, peerVars, http, validTokens, grants, authCodes,
                   codes, tokenReqs, transports, sessions>>

\* transport.onclose: the session's entry is deleted.
CloseSession(sid) ==
    /\ \E k \in 1..Len(transports) : transports[k] = sid
    /\ transports' = SelectSeq(transports, LAMBDA s : s # sid)
    /\ UNCHANGED <<mailVars, peerVars, http, validTokens, grants, authCodes,
                   codes, tokenReqs, sessions, handled>>

Grants    == {"authorization_code", "client_credentials", "password"}
Presented == {"good", "bad"}
Verifiers == {"right", "wrong"}

NextH ==
    \/ StartHttpServer
    \/ \E ok \in BOOLEAN, pkce \in BOOLEAN : Authorize(ok, pkce)
    \/ \E cr \in Presented, g \in Grants, c \in 0..MaxCodes, v \in Verifiers :
          TokenRequest(cr, g, c, v)
    \/ \E i \in 1..MaxTokens : TokenResume(i)
    \/ \E tok \in 0..MaxTokens : McpSse(tok)
    \/ \E tok \in 0..MaxTokens, sid \in 0..MaxSessions : McpMessage(tok, sid)
    \/ \E sid \in 1..MaxSessions : CloseSession(sid)

\* The HTTP server and its clients.
SpecH == Init /\ [][NextH]_vars

(***************************************************************************)
(* Properties of the HTTP server.                                          *)
(***************************************************************************)
McpPaths  == {"/mcp/sse", "/mcp/message"}
Refused   == {"unauthorized", "invalid_token"}
Processed == handled.path \in McpPaths /\ handled.status \notin Refused
TokensFor(c) == {t \in validTokens : grants[t].code = c}

\* C29: a message posted to /mcp/message is handed to no transport but the
\* one of the session whose id the request carries; with a missing or an
\* unknown id it reaches no transport at all, and a closed session's
\* transport receives nothing.
C29_MessageReachesOnlyItsSession ==
    (handled.path = "/mcp/message" /\ handled.to # NoId) =>
        /\ handled.to = handled.asked
        /\ \E k \in 1..Len(transports) : transports[k] = handled.to

\* C26: whatever the interleaving of the token requests that carry it, at
\* most one access token is issued for an authorization code, and a code a
\* token has been issued for is no longer redeemable.
C26_CodeRedeemedAtMostOnce ==
    \A c \in 1..MaxCodes :
        /\ Cardinality(TokensFor(c)) <= 1
        /\ TokensFor(c) # {} => ~HasCode(c)

\* C24: with OAUTH_CLIENT_ID and OAUTH_CLIENT_SECRET configured, a request
\* to /mcp/sse or /mcp/message gets past the middleware only with a bearer
\* token the token endpoint has issued, and every token was issued to a
\* request that presented the configured client id and secret.
C24_McpNeedsTokenIssuedToClient ==
    /\ (http = "oauth" /\ Processed) =>
           /\ handled.token \in validTokens
           /\ handled.token \in 1..Len(grants)
           /\ grants[handled.token].creds = "good"
    /\ \A t \in validTokens : t \in 1..Len(grants) /\ grants[t].creds = "good"
    /\ http # "oauth" => validTokens = {}

\* A message is handled for the holder of an issued token, after requests
\* without a token and with wrong credentials have been made.
C24_Witness ==
    /\ http = "oauth"
    /\ handled.path = "/mcp/message"
    /\ handled.status = "ok"
    /\ handled.token \in validTokens
    /\ handled.to # NoId
    /\ Len(grants) = MaxTokens

(***************************************************************************)
(* A second mutate call (server.js 828-875) made while the first is in     *)
(* flight.  It has a connection of its own and the locals of its own       *)
(* invocation of modifyEmails; the two calls share the mail store only.    *)
(* The mail server runs each command in one step.                          *)
(***************************************************************************)
PeerInputs  == {Arr(<<Num(2)>>), Arr(<<Num(2), Num(4)>>)}
PeerFolders == {"INBOX", "Trash"}
InFlight    == {"connecting", "opening", "executing", "replied"}

PeerCommand == Command(peer.tool, peer.dest, peer.uids)

PeerCall(t, u, f, d) ==
    /\ pc \in InFlight
    /\ tool \in MutateTools
    /\ peer.pc = "idle"
    /\ validateUIDs(u) = "null"
    /\ peer' = [pc |-> "connecting", tool |-> t, uids |-> u, folder |-> f,
                dest |-> d, reply |-> "", result |-> NoResult]
    /\ UNCHANGED <<mailVars, httpVars>>

PeerConnReady ==
    /\ peer.pc = "connecting"
    /\ peer' = [peer EXCEPT !.pc = "opening"]
    /\ UNCHANGED <<mailVars, httpVars>>

PeerConnError ==
    /\ peer.pc = "connecting"
    /\ \E e \in ErrorKinds :
          peer' = [peer EXCEPT !.pc = "done",
                               !.result = ErrorResult(ErrorMessage(e), 0, <<>>)]
    /\ UNCHANGED <<mailVars, httpVars>>

PeerOpenBoxErr ==
    /\ peer.pc = "opening"
    /\ peer' = [peer EXCEPT !.pc = "done",
                            !.result = ErrorResult("Failed to open folder", 0,
                                                   <<>>)]
    /\ UNCHANGED <<mailVars, httpVars>>

PeerOpenBoxOk ==
    /\ peer.pc = "opening"
    /\ peer.folder \in RealFolders
    /\ peer' = [peer EXCEPT !.pc = "executing"]
    /\ UNCHANGED <<mailVars, httpVars>>

\* The second call's command naming the UIDs of the first call, as if the
\* source were kept in a field of the server object.
PeerServerOkSharedSource ==
    /\ peer.pc = "executing"
    /\ CanApply(Command(peer.tool, peer.dest, uids),
                Targets(peer.folder, Command(peer.tool, peer.dest, uids)))
    /\ store' = ApplyCommand(Command(peer.tool, peer.dest, uids),
                    Targets(peer.folder, Command(peer.tool, peer.dest, uids)))
    /\ uidNext' = IF PeerCommand.op = "move"
                  THEN [uidNext EXCEPT ![PeerCommand.arg] = @ + Cardinality(
                     Targets(peer.folder, Command(peer.tool, peer.dest, uids)))]
                  ELSE uidNext
    /\ peer' = [peer EXCEPT !.pc = "replied", !.reply = "OK"]
    /\ UNCHANGED <<httpVars, ncalls, pc, argVars, promVars, conn, boxMode, cmds,
                   reply, histVars, readVars, result>>

PeerServerOk ==
    /\ peer.pc = "executing"
    /\ CanApply(PeerCommand, Targets(peer.folder, PeerCommand))
    /\ store' = ApplyCommand(PeerCommand, Targets(peer.folder, PeerCommand))
    /\ uidNext' = IF PeerCommand.op = "move"
                  THEN [uidNext EXCEPT ![PeerCommand.arg] =
                            @ + Cardinality(Targets(peer.folder, PeerCommand))]
                  ELSE uidNext
    /\ peer' = [peer EXCEPT !.pc = "replied", !.reply = "OK"]
    /\ UNCHANGED <<httpVars, ncalls, pc, argVars, promVars, conn, boxMode, cmds,
                   reply, histVars, readVars, result>>

PeerServerErr ==
    /\ peer.pc = "executing"
    /\ \E r \in {"errUID", "errOther"} :
          peer' = [peer EXCEPT !.pc = "replied", !.reply = r]
    /\ UNCHANGED <<mailVars, httpVars>>

PeerOperationCallback ==
    /\ peer.pc = "replied"
    /\ peer' = [peer EXCEPT
          !.pc = "done",
          !.result = CASE peer.reply = "errUID" ->
                            ErrorResult("One or more UIDs not found", 0,
                                        Ints(peer.uids))
                       [] peer.reply = "errOther" ->
                            ErrorResult("server error", 0, <<>>)
                       [] OTHER ->
                            OkResult("Successfully", Len(Ints(peer.uids)),
                                     Ints(peer.uids))]
    /\ UNCHANGED <<mailVars, httpVars>>

PeerStep ==
    \/ \E t \in MutateTools, u \in PeerInputs, f \in PeerFolders :
         \E d \in IF t = "move_emails" THEN MoveDests ELSE {""} :
            PeerCall(t, u, f, d)
    \/ PeerConnReady
    \/ PeerConnError
    \/ PeerOpenBoxErr
    \/ PeerOpenBoxOk
    \/ PeerServerOk
    \/ PeerServerErr
    \/ PeerOperationCallback

\* The first of the two calls.
PairCall ==
    /\ ncalls = 0
    /\ \E t \in MutateTools, u \in PeerInputs, f \in PeerFolders :
         \E d \in IF t = "move_emails" THEN MoveDests ELSE {""} :
            StartCall(t, u, f, d)

\* One mutate call, and a second mutate call running beside it.
NextP ==
    \/ PairCall
    \/ ConnReady
    \/ ConnError
    \/ OpenBoxErr
    \/ ModifyOpenBoxOk
    \/ ServerOk
    \/ ServerErr
    \/ OperationCallback
    \/ PeerStep
SpecP == Init /\ [][NextP]_vars

(***************************************************************************)
(* Two concurrent calls against the two serial orders.                     *)
(***************************************************************************)
\* The two calls, each with the answer the mail server gave it ("" if the
\* call ended before its command was sent).
FirstCall  == [tool |-> tool, uids |-> uids, folder |-> folder, dest |-> dest,
               reply |-> reply]
SecondCall == [tool |-> peer.tool, uids |-> peer.uids, folder |-> peer.folder,
               dest |-> peer.dest, reply |-> peer.reply]

\* The mail store before either call.
StoreBefore ==
    [st   |-> [m \in Msgs |-> [folder |-> "INBOX", uid |-> m, flags |-> {}]],
     next |-> [f \in RealFolders |-> IF f = "INBOX" THEN NumMsgs + 1 ELSE 1]]

NamedIn(s, c) == {m \in Msgs : /\ s.st[m].folder = c.folder
                               /\ s.st[m].uid \in Range(Ints(c.uids))}

\* The mail store after call c has run from store s with nothing else
\* running, the server answering as it answered c.
Alone(s, c) ==
    IF c.reply # "OK" THEN s
    ELSE LET o  == Operation(c.tool, c.dest)
             ms == NamedIn(s, c)
         IN  [st |-> [m \in Msgs |->
                        IF m \notin ms THEN s.st[m]
                        ELSE CASE o.op = "addFlags" ->
                                    [s.st[m] EXCEPT !.flags = @ \cup {o.arg}]
                               [] o.op = "delFlags" ->
                                    [s.st[m] EXCEPT !.flags = @ \ {o.arg}]
                               [] OTHER ->
                                    [s.st[m] EXCEPT
                                        !.folder = o.arg,
                                        !.uid = s.next[o.arg] + Cardinality(
                                           {k \in ms : s.st[k].uid < s.st[m].uid})]],
              next |-> IF o.op = "move"
                       THEN [s.next EXCEPT ![o.arg] = @ + Cardinality(ms)]
                       ELSE s.next]

\* What call c returns when it runs alone and the server answers c.reply.
ResultAlone(c) ==
    CASE c.reply = "OK" ->
            OkResult("Successfully", Len(Ints(c.uids)), Ints(c.uids))
      [] c.reply = "errUID" ->
            ErrorResult("One or more UIDs not found", 0, Ints(c.uids))
      [] OTHER -> ErrorResult("server error", 0, <<>>)

FirstThenSecond == Alone(Alone(StoreBefore, FirstCall), SecondCall)
SecondThenFirst == Alone(Alone(StoreBefore, SecondCall), FirstCall)
BothDone == pc = "done" /\ tool \in MutateTools /\ peer.pc = "done"

\* C21: when two mutate calls have run concurrently, each on its own
\* connection, the mail store is what running the two one after the other,
\* in one of the two orders, leaves, and each call has returned what it
\* returns when run alone.
C21_ConcurrentCallsAreSerializable ==
    BothDone =>
        /\ [st |-> store, next |-> uidNext] \in {FirstThenSecond, SecondThenFirst}
        /\ reply # "" => result = ResultAlone(FirstCall)
        /\ peer.reply # "" => peer.result = ResultAlone(SecondCall)

\* Both commands were run, the order matters, and the server ran the
\* command of the call made second before that of the call made first.
C21_Witness ==
    /\ BothDone
    /\ reply = "OK"
    /\ peer.reply = "OK"
    /\ FirstThenSecond # SecondThenFirst
    /\ [st |-> store, next |-> uidNext] = SecondThenFirst

====
